---------------------------- MODULE Spec2Model ----------------------------
(***************************************************************************)
(* breaks-machine: tempo resolution, stretch planning and output naming.   *)
(*                                                                         *)
(* Text is a sequence of one-character strings.  A BPM (a Python float) is *)
(* an integer count of 1/Unit BPM, so 120.5 BPM is 723.  An optional value *)
(* (Python's None) is a sequence of length 0 or 1.                         *)
(***************************************************************************)
EXTENDS Integers, Sequences, FiniteSets, TLC

VARIABLES
    pc,            \* position of the call or of the run
    args,          \* the arguments of the call; for a run, the command line
                   \* and what it finds on disk
    outcome,       \* what the call returned or raised; for a run, its exit
    target_bpms,   \* cli.stretch: the parsed targets
    queue,         \* process_directory: the audio files still to process
    current_bpm,   \* process_file: the resolved tempo of the current file
    todo,          \* process_file: the targets still to stretch to
    output_paths,  \* process_file: the paths collected for the current file
    all_outputs,   \* process_directory: the paths collected so far
    disk,          \* the files written under the output directory
    calls          \* the calls made to the collaborators, in order

runvars ==
    <<target_bpms, queue, current_bpm, todo, output_paths, all_outputs, disk, calls>>

vars == <<pc, args, outcome, runvars>>

\* no run is under way
RunIdle ==
    /\ target_bpms = <<>>
    /\ queue = <<>>
    /\ current_bpm = <<>>
    /\ todo = <<>>
    /\ output_paths = <<>>
    /\ all_outputs = <<>>
    /\ disk = {}
    /\ calls = <<>>

----------------------------------------------------------------------------
(* Values *)

\* resolution of the fixed-point floats: 1/6 BPM keeps x1.5, x4/3 and /1.5 exact
Unit == 2 * 3

None == <<>>
Some(x) == <<x>>
IsNone(o) == Len(o) = 0
Val(o) == o[1]

\* float(n) of a whole number of BPM
Bpm(n) == n * Unit

----------------------------------------------------------------------------
(* pathlib: PurePath.stem and PurePath.suffix of a file name *)

\* name.rfind("."), 0 when there is none
LastDot(name) ==
    IF \E i \in 1..Len(name) : name[i] = "."
    THEN CHOOSE i \in 1..Len(name) :
            /\ name[i] = "."
            /\ \A j \in (i + 1)..Len(name) : name[j] # "."
    ELSE 0

\* a suffix starts at the last dot unless that dot opens or closes the name
HasSuffix(name) == LastDot(name) > 1 /\ LastDot(name) < Len(name)

PathSuffix(name) ==
    IF HasSuffix(name) THEN SubSeq(name, LastDot(name), Len(name)) ELSE <<>>

PathStem(name) ==
    IF HasSuffix(name) THEN SubSeq(name, 1, LastDot(name) - 1) ELSE name

----------------------------------------------------------------------------
(* Characters and the regular-expression classes of the patterns *)

DigitChars == <<"0", "1", "2", "3", "4", "5", "6", "7", "8", "9">>

\* \d
IsDigit(c) == \E d \in 1..10 : DigitChars[d] = c

DigitVal(c) == (CHOOSE d \in 1..10 : DigitChars[d] = c) - 1

\* [\s_-]
IsSepSpace(c) == c \in {" ", "_", "-"}

\* [_-]
IsSep(c) == c \in {"_", "-"}

\* the letters of the model's alphabet
UpperChars == <<"A", "B", "C", "F", "L", "M", "P", "V", "W">>
LowerChars == <<"a", "b", "c", "f", "l", "m", "p", "v", "w">>

\* c.lower(); re.IGNORECASE compares the lowered letters
Lower(c) ==
    IF \E k \in 1..Len(UpperChars) : UpperChars[k] = c
    THEN LowerChars[CHOOSE k \in 1..Len(UpperChars) : UpperChars[k] = c]
    ELSE c

\* s.lower()
LowerText(s) == [i \in 1..Len(s) |-> Lower(s[i])]

\* s[i..i+n-1] are all digits
DigitsAt(s, i, n) ==
    /\ i >= 1
    /\ i + n - 1 <= Len(s)
    /\ \A k \in i..(i + n - 1) : IsDigit(s[k])

\* int(s[i..i+n-1]) for n in {2, 3}
NumAt(s, i, n) ==
    IF n = 3
    THEN 100 * DigitVal(s[i]) + 10 * DigitVal(s[i + 1]) + DigitVal(s[i + 2])
    ELSE 10 * DigitVal(s[i]) + DigitVal(s[i + 1])

\* the literal "bpm" (case-insensitive) at s[j..j+2]
BpmAt(s, j) ==
    /\ j >= 1
    /\ j + 2 <= Len(s)
    /\ Lower(s[j]) = "b"
    /\ Lower(s[j + 1]) = "p"
    /\ Lower(s[j + 2]) = "m"

NoMatch == [ok |-> FALSE, num |-> 0, len |-> 0]
Match(n, l) == [ok |-> TRUE, num |-> n, len |-> l]

\* (\d{2,3})[\s_-]?bpm anchored at i, for a digit run of exactly n characters;
\* the optional separator is greedy: tried first.
WithBpmN(s, i, n) ==
    IF ~DigitsAt(s, i, n) THEN NoMatch
    ELSE IF i + n <= Len(s) /\ IsSepSpace(s[i + n]) /\ BpmAt(s, i + n + 1)
         THEN Match(NumAt(s, i, n), n + 4)
    ELSE IF BpmAt(s, i + n)
         THEN Match(NumAt(s, i, n), n + 3)
    ELSE NoMatch

\* (\d{2,3})[\s_-]?bpm anchored at i: {2,3} is greedy, three digits first
WithBpmAt(s, i) ==
    IF WithBpmN(s, i, 3).ok THEN WithBpmN(s, i, 3) ELSE WithBpmN(s, i, 2)

\* ^(\d{2,3})[\s_-]
LeadingN(s, n) ==
    IF DigitsAt(s, 1, n) /\ 1 + n <= Len(s) /\ IsSepSpace(s[1 + n])
    THEN Match(NumAt(s, 1, n), n + 1)
    ELSE NoMatch

LeadingMatch(s) ==
    IF LeadingN(s, 3).ok THEN LeadingN(s, 3) ELSE LeadingN(s, 2)

\* [_-](\d{2,3})(?:[_-]|$) anchored at i
TrailingN(s, i, n) ==
    IF /\ i >= 1
       /\ i <= Len(s)
       /\ IsSep(s[i])
       /\ DigitsAt(s, i + 1, n)
    THEN IF i + n + 1 <= Len(s) /\ IsSep(s[i + n + 1])
         THEN Match(NumAt(s, i + 1, n), n + 2)
         ELSE IF i + n = Len(s)
              THEN Match(NumAt(s, i + 1, n), n + 1)
              ELSE NoMatch
    ELSE NoMatch

TrailingAt(s, i) ==
    IF TrailingN(s, i, 3).ok THEN TrailingN(s, i, 3) ELSE TrailingN(s, i, 2)

\* re.search: the match at the leftmost position that has one
SearchWithBpm(s) ==
    IF \E i \in 1..Len(s) : WithBpmAt(s, i).ok
    THEN WithBpmAt(s, CHOOSE i \in 1..Len(s) :
                        /\ WithBpmAt(s, i).ok
                        /\ \A j \in 1..(i - 1) : ~WithBpmAt(s, j).ok)
    ELSE NoMatch

SearchTrailing(s) ==
    IF \E i \in 1..Len(s) : TrailingAt(s, i).ok
    THEN TrailingAt(s, CHOOSE i \in 1..Len(s) :
                         /\ TrailingAt(s, i).ok
                         /\ \A j \in 1..(i - 1) : ~TrailingAt(s, j).ok)
    ELSE NoMatch

----------------------------------------------------------------------------
(* detector.py: parse_bpm_from_filename *)

MinFilenameBpm == 90
MaxFilenameBpm == 180

\* an off-by-one band, 89..181
InBandWidened(n) == MinFilenameBpm - 1 <= n /\ n <= MaxFilenameBpm + 1

\* 90 <= bpm <= 180
InBand(n) == MinFilenameBpm <= n /\ n <= MaxFilenameBpm

\* the first of the three patterns whose (leftmost) match is in the band
parse_bpm_from_filename(stem) ==
    LET m1 == SearchWithBpm(stem)
        m2 == LeadingMatch(stem)
        m3 == SearchTrailing(stem)
    IN  IF m1.ok /\ InBand(m1.num) THEN Some(Bpm(m1.num))
        ELSE IF m2.ok /\ InBand(m2.num) THEN Some(Bpm(m2.num))
        ELSE IF m3.ok /\ InBand(m3.num) THEN Some(Bpm(m3.num))
        ELSE None

----------------------------------------------------------------------------
(* detector.py: bpms_match and get_source_bpm *)

Abs(x) == IF x < 0 THEN -x ELSE x

\* tolerance: float = 3.0
DefaultTolerance == 3

\* only the direct comparison, half and double time left out
DirectMatchOnly(bpm1, bpm2, tolerance) == Abs(bpm1 - bpm2) <= tolerance

\* equal within the tolerance, directly or at half or double time
bpms_match(bpm1, bpm2, tolerance) ==
    IF Abs(bpm1 - bpm2) <= tolerance THEN TRUE
    ELSE IF Abs(bpm1 - bpm2 * 2) <= tolerance THEN TRUE
    ELSE IF Abs(bpm1 * 2 - bpm2) <= tolerance THEN TRUE
    ELSE FALSE

\* an estimator that is run whatever the name and the flags say
ShouldDetectAlways(filename_bpm, warn) == TRUE

\* "if manual_bpm:", which takes an override of 0 for no override
ManualGivenTruthy(manual_bpm) == manual_bpm # None /\ Val(manual_bpm) # 0

\* if manual_bpm is not None
ManualGiven(manual_bpm) == manual_bpm # None

\* if filename_bpm is None or warn
ShouldDetect(filename_bpm, warn) == filename_bpm = None \/ warn

\* an except clause that re-raises whatever the filename said
DetectFailureAlwaysFatal(filename_bpm) == TRUE

\* an except clause that swallows every failure
DetectFailureNeverFatal(filename_bpm) == FALSE

\* except Exception as e: if filename_bpm is None: raise
DetectFailureIsFatal(filename_bpm) == filename_bpm = None

\* the mismatch test with its negation lost
ShouldWarnOnMatch(warn, detected_bpm, warn_callback, filename_bpm) ==
    /\ warn
    /\ detected_bpm # None
    /\ warn_callback
    /\ bpms_match(Val(filename_bpm), Val(detected_bpm), Bpm(DefaultTolerance))

\* if warn and detected_bpm is not None and warn_callback:
\*     if not bpms_match(filename_bpm, detected_bpm):
ShouldWarn(warn, detected_bpm, warn_callback, filename_bpm) ==
    /\ warn
    /\ detected_bpm # None
    /\ warn_callback
    /\ ~bpms_match(Val(filename_bpm), Val(detected_bpm), Bpm(DefaultTolerance))

Returned(v, sunk, n) ==
    [kind |-> "return", value |-> v, warnings |-> sunk, detect_calls |-> n]

\* BPMDetectionError(f"Could not determine BPM for {file_path}[: {e}]")
RaisedDetection(file_path, cause, n) ==
    [kind |-> "raise", error |-> "BPMDetectionError",
     message |-> [file |-> file_path, cause |-> cause],
     warnings |-> <<>>, detect_calls |-> n]

\* acoustic is what detect_bpm_with_librosa(file_path) does when it is called:
\* [raises |-> FALSE, value |-> bpm] or [raises |-> TRUE, cause |-> text].
\* warn_callback is TRUE when a sink was supplied.
get_source_bpm(file_path, manual_bpm, warn, warn_callback, acoustic) ==
    IF ManualGiven(manual_bpm) THEN Returned(Val(manual_bpm), <<>>, 0)
    ELSE
    LET filename_bpm == parse_bpm_from_filename(PathStem(file_path))
        called == ShouldDetect(filename_bpm, warn)
        n == IF called THEN 1 ELSE 0
        failed == called /\ acoustic.raises
        detected_bpm == IF called /\ ~acoustic.raises
                        THEN Some(acoustic.value) ELSE None
    IN  IF failed /\ DetectFailureIsFatal(filename_bpm)
        THEN RaisedDetection(file_path, Some(acoustic.cause), n)
        ELSE IF filename_bpm # None
        THEN Returned(Val(filename_bpm),
                      IF ShouldWarn(warn, detected_bpm, warn_callback, filename_bpm)
                      THEN <<[filename_bpm |-> Val(filename_bpm),
                              detected_bpm |-> Val(detected_bpm)]>>
                      ELSE <<>>,
                      n)
        ELSE IF detected_bpm # None
        THEN Returned(Val(detected_bpm), <<>>, n)
        ELSE RaisedDetection(file_path, None, n)

----------------------------------------------------------------------------
(* detector.py: detect_bpm_with_librosa *)

\* tempo[:4]
TempoValuesPerRun == 4

\* 80 <= bpm <= 200
MinValidBpm == 80
MaxValidBpm == 200

\* target = 160
TargetCenter == 160

\* candidates[0] if candidates else 120.0
FallbackBpm == 120

\* [None, 140, 170]
priors == <<None, Some(140), Some(170)>>

Elems(q) == {q[i] : i \in DOMAIN q}

\* sorted(set(...)): the values in ascending order, each once
RECURSIVE Sorted(_)
Sorted(S) ==
    IF S = {} THEN <<>>
    ELSE LET m == CHOOSE x \in S : \A y \in S : x <= y
         IN  <<m>> \o Sorted(S \ {m})

\* q[:n]
Take(q, n) == SubSeq(q, 1, IF Len(q) < n THEN Len(q) ELSE n)

InValidRange(bpm) == Bpm(MinValidBpm) <= bpm /\ bpm <= Bpm(MaxValidBpm)

\* bpm, bpm * 2, bpm * 1.5, bpm * (4 / 3), bpm / 1.5; exact for a whole
\* number of BPM, whose fixed-point value is a multiple of Unit
Variants(bpm) ==
    <<bpm, bpm * 2, (bpm * 3) \div 2, (bpm * 4) \div 3, (bpm * 2) \div 3>>

RECURSIVE Expanded(_)
Expanded(candidates) ==
    IF candidates = <<>> THEN <<>>
    ELSE Variants(Head(candidates)) \o Expanded(Tail(candidates))

\* min(q, key=lambda x: abs(x - target)): the first of the nearest ones
ClosestTo(q, target) ==
    LET i == CHOOSE j \in DOMAIN q :
                 /\ \A k \in DOMAIN q :
                        Abs(q[j] - target) <= Abs(q[k] - target)
                 /\ \A k \in 1..(j - 1) :
                        Abs(q[k] - target) > Abs(q[j] - target)
    IN  q[i]

\* no candidate counts as directly detected
NoDirectDetections(candidates) == <<>>

\* [bpm for bpm in candidates if 80 <= bpm <= 200]
direct_detections(candidates) == SelectSeq(candidates, InValidRange)

\* what one run of librosa.feature.tempo(..., aggregate=None) gives:
\* [raises |-> TRUE] or [raises |-> FALSE, tempo |-> the array of tempos].
\* An empty array takes the float(tempo) branch, which raises TypeError.
RunFails(run) == run.raises \/ run.tempo = <<>>

RECURSIVE AllCandidates(_)
AllCandidates(runs) ==
    IF runs = <<>> THEN <<>>
    ELSE Take(Head(runs).tempo, TempoValuesPerRun) \o AllCandidates(Tail(runs))

\* runs[i] is the result of the estimator under priors[i]
detect_bpm_with_librosa(runs) ==
    IF \E i \in DOMAIN runs : RunFails(runs[i])
    THEN [raises |-> TRUE,
          cause |-> IF runs[CHOOSE i \in DOMAIN runs :
                               /\ RunFails(runs[i])
                               /\ \A k \in 1..(i - 1) : ~RunFails(runs[k])].raises
                    THEN "estimator error" ELSE "TypeError"]
    ELSE
    LET candidates == Sorted(Elems(AllCandidates(runs)))
        valid_candidates ==
            Sorted({bpm \in Elems(Expanded(candidates)) : InValidRange(bpm)})
    IN  IF valid_candidates = <<>>
        THEN [raises |-> FALSE,
              value |-> IF candidates # <<>> THEN candidates[1]
                        ELSE Bpm(FallbackBpm)]
        ELSE IF direct_detections(candidates) # <<>>
        THEN [raises |-> FALSE,
              value |-> ClosestTo(direct_detections(candidates),
                                  Bpm(TargetCenter))]
        ELSE [raises |-> FALSE,
              value |-> ClosestTo(valid_candidates, Bpm(TargetCenter))]

----------------------------------------------------------------------------
(* stretcher.py: calculate_stretch_ratio and stretch_to_bpm *)

RECURSIVE Gcd(_, _)
Gcd(a, b) == IF b = 0 THEN a ELSE Gcd(b, a % b)

\* the quotient n / d (d # 0) in lowest terms, the sign on the numerator
Quotient(n, d) ==
    LET g == Gcd(Abs(n), Abs(d))
        sgn == IF d < 0 THEN -1 ELSE 1
    IN  [num |-> sgn * (n \div g), den |-> sgn * (d \div g)]

\* the inverse convention, a duration scale
DurationScale(source_bpm, target_bpm) == Quotient(source_bpm, target_bpm)

\* return target_bpm / source_bpm
calculate_stretch_ratio(source_bpm, target_bpm) ==
    Quotient(target_bpm, source_bpm)

\* stretch_audio: pyrubberband.time_stretch(y, sr, ratio, rbargs), then the
\* parent directory is made and the result written to output_path
stretch_audio(input_path, output_path, ratio, crispness) ==
    [kind |-> "return",
     engine |-> [input |-> input_path, rate |-> ratio, crispness |-> crispness],
     written |-> output_path]

\* float division by zero
RaisedZeroDivision == [kind |-> "raise", error |-> "ZeroDivisionError"]

stretch_to_bpm(input_path, output_path, source_bpm, target_bpm, crispness) ==
    IF source_bpm = 0 THEN RaisedZeroDivision
    ELSE stretch_audio(input_path, output_path,
                       calculate_stretch_ratio(source_bpm, target_bpm), crispness)

----------------------------------------------------------------------------
(* processor.py: strip_bpm_from_filename and generate_output_path *)

\* [\s_-]?(\d{2,3})[\s_-]?bpm anchored at i; the leading separator is greedy
StripBpmAt(s, i) ==
    IF i <= Len(s) /\ IsSepSpace(s[i]) /\ WithBpmAt(s, i + 1).ok
    THEN Match(WithBpmAt(s, i + 1).num, WithBpmAt(s, i + 1).len + 1)
    ELSE WithBpmAt(s, i)

\* re.sub(pattern_with_bpm, "", s) from position i on: one pass, left to
\* right, over non-overlapping matches
RECURSIVE SubWithBpm(_, _)
SubWithBpm(s, i) ==
    IF i > Len(s) THEN <<>>
    ELSE IF StripBpmAt(s, i).ok
         THEN SubWithBpm(s, i + StripBpmAt(s, i).len)
         ELSE <<s[i]>> \o SubWithBpm(s, i + 1)

\* [_-](\d{2,3})$ with a digit run of exactly n characters
TrailingEndN(s, n) ==
    /\ Len(s) >= n + 1
    /\ IsSep(s[Len(s) - n])
    /\ DigitsAt(s, Len(s) - n + 1, n)

\* re.sub(pattern_trailing, "", s)
SubTrailing(s) ==
    IF TrailingEndN(s, 3) THEN SubSeq(s, 1, Len(s) - 4)
    ELSE IF TrailingEndN(s, 2) THEN SubSeq(s, 1, Len(s) - 3)
    ELSE s

\* a single pass that leaves the trailing number in place
StripBpmTokenOnly(filename) == SubWithBpm(filename, 1)

strip_bpm_from_filename(filename) == SubTrailing(SubWithBpm(filename, 1))

\* rounding to the nearest integer, halves away from zero
RoundHalfUp(x) ==
    IF x >= 0 THEN (2 * x + Unit) \div (2 * Unit)
    ELSE -((2 * (-x) + Unit) \div (2 * Unit))

\* int(x): the fractional part is dropped, towards zero
IntTrunc(x) == IF x >= 0 THEN x \div Unit ELSE -((-x) \div Unit)

\* str(k) of a natural number
RECURSIVE NatStr(_)
NatStr(k) ==
    IF k < 10 THEN <<DigitChars[k + 1]>>
    ELSE NatStr(k \div 10) \o <<DigitChars[(k % 10) + 1]>>

\* str(k) of an integer
IntStr(k) == IF k < 0 THEN <<"-">> \o NatStr(-k) ELSE NatStr(k)

\* a path is the components of its directory and its file name
PathOf(parent, name) == [parent |-> parent, name |-> name]

\* a folder named after the stripped base name
FolderStripped(stem) == strip_bpm_from_filename(stem)

\* folder = output_dir / stem
Folder(stem) == stem

generate_output_path(input_path, output_dir, target_bpm) ==
    LET stem == PathStem(input_path.name)
        ext == PathSuffix(input_path.name)
        base_name == strip_bpm_from_filename(stem)
    IN  PathOf(output_dir \o <<Folder(stem)>>,
               base_name \o <<"_">> \o IntStr(IntTrunc(target_bpm)) \o ext)

----------------------------------------------------------------------------
(* processor.py: parse_targets *)

\* s.split(ch)
RECURSIVE Split(_, _)
Split(s, ch) ==
    IF \E i \in 1..Len(s) : s[i] = ch
    THEN LET i == CHOOSE k \in 1..Len(s) :
                    s[k] = ch /\ \A j \in 1..(k - 1) : s[j] # ch
         IN  <<SubSeq(s, 1, i - 1)>> \o Split(SubSeq(s, i + 1, Len(s)), ch)
    ELSE <<s>>

\* s.strip(), of blanks
RECURSIVE Strip(_)
Strip(s) ==
    IF s # <<>> /\ s[1] = " " THEN Strip(Tail(s))
    ELSE IF s # <<>> /\ s[Len(s)] = " " THEN Strip(SubSeq(s, 1, Len(s) - 1))
    ELSE s

AllDigits(s) == \A i \in 1..Len(s) : IsDigit(s[i])

\* the value of a run of digits, 0 for the empty run
RECURSIVE NatOf(_)
NatOf(s) ==
    IF s = <<>> THEN 0
    ELSE 10 * NatOf(SubSeq(s, 1, Len(s) - 1)) + DigitVal(s[Len(s)])

RECURSIVE Pow10(_)
Pow10(k) == IF k = 0 THEN 1 ELSE 10 * Pow10(k - 1)

HasSign(s) == s # <<>> /\ s[1] \in {"-", "+"}
Unsigned(s) == IF HasSign(s) THEN Tail(s) ELSE s
SignOf(s) == IF s # <<>> /\ s[1] = "-" THEN -1 ELSE 1

\* float(text) of a decimal numeral: [sign] digits [. digits], at least one
\* digit; None stands for ValueError.  The fraction is cut to 1/Unit.
ParseFloat(text) ==
    LET t == Strip(text)
        u == Unsigned(t)
        parts == Split(u, ".")
        whole == parts[1]
        frac == IF Len(parts) = 2 THEN parts[2] ELSE <<>>
    IN  IF /\ Len(parts) <= 2
           /\ AllDigits(whole)
           /\ AllDigits(frac)
           /\ Len(whole) + Len(frac) > 0
        THEN Some(SignOf(t) * (NatOf(whole) * Unit
                                + (NatOf(frac) * Unit) \div Pow10(Len(frac))))
        ELSE None

\* int(text) of a decimal numeral: [sign] digits; None stands for ValueError
ParseInt(text) ==
    LET t == Strip(text)
        u == Unsigned(t)
    IN  IF u # <<>> /\ AllDigits(u) THEN Some(SignOf(t) * NatOf(u)) ELSE None

\* list(range(start, stop, step)), step # 0
RECURSIVE Range(_, _, _)
Range(start, stop, step) ==
    IF (step > 0 /\ start < stop) \/ (step < 0 /\ start > stop)
    THEN <<start>> \o Range(start + step, stop, step)
    ELSE <<>>

\* the floats of a comma list; None when some item is no float
RECURSIVE FloatsOf(_)
FloatsOf(items) ==
    IF items = <<>> THEN Some(<<>>)
    ELSE LET f == ParseFloat(Head(items))
             rest == FloatsOf(Tail(items))
         IN  IF f = None \/ rest = None THEN None
             ELSE Some(<<Val(f)>> \o Val(rest))

InSeq(x, q) == \E i \in 1..Len(q) : q[i] = x

\* the list as it is: no duplicate removed
KeepAll(q) == q

\* the first occurrence of each value, in order
RECURSIVE Unique(_)
Unique(q) ==
    IF q = <<>> THEN <<>>
    ELSE LET front == Unique(SubSeq(q, 1, Len(q) - 1))
         IN  IF InSeq(q[Len(q)], front) THEN front
             ELSE front \o <<q[Len(q)]>>

RaisedValueError(msg) == [kind |-> "raise", error |-> "ValueError", message |-> msg]

\* the values the range contributes, or the ValueError it raises
RangeTargets(range_spec, step) ==
    LET parts == Split(range_spec, "-")
    IN  IF Len(parts) # 2 THEN RaisedValueError("Invalid range format")
        ELSE IF ParseInt(parts[1]) = None \/ ParseInt(parts[2]) = None
        THEN RaisedValueError("invalid literal for int()")
        ELSE IF step = 0 THEN RaisedValueError("range() arg 3 must not be zero")
        ELSE [kind |-> "return",
              value |-> [i \in 1..Len(Range(Val(ParseInt(parts[1])),
                                            Val(ParseInt(parts[2])) + 1, step)) |->
                            Bpm(Range(Val(ParseInt(parts[1])),
                                      Val(ParseInt(parts[2])) + 1, step)[i])]]

\* an emptiness test that never fires
NoTargetsNever(result) == FALSE

\* if not result
NoTargets(result) == result = <<>>

\* target: float | None; targets, range_spec: text | None; step: int
parse_targets(target, targets, range_spec, step) ==
    LET single == IF target # None THEN <<Val(target)>> ELSE <<>>
        listed == IF targets # None THEN FloatsOf(Split(Val(targets), ","))
                  ELSE Some(<<>>)
        ranged == IF range_spec # None THEN RangeTargets(Val(range_spec), step)
                  ELSE [kind |-> "return", value |-> <<>>]
    IN  IF listed = None THEN RaisedValueError("could not convert string to float")
        ELSE IF ranged.kind = "raise" THEN ranged
        ELSE IF NoTargets(single \o Val(listed) \o ranged.value)
        THEN RaisedValueError("No target BPM specified")
        ELSE [kind |-> "return",
              value |-> Unique(single \o Val(listed) \o ranged.value)]

\* --step and --crispness when not given
DefaultStep == 10
DefaultCrispness == 5

----------------------------------------------------------------------------
(* File names under test: up to a bounded number of tokens, written out *)

RECURSIVE Flatten(_)
Flatten(ts) == IF ts = <<>> THEN <<>> ELSE Head(ts) \o Flatten(Tail(ts))

NamesOf(tokens, n) ==
    {Flatten(ts) : ts \in UNION {[1..k -> tokens] : k \in 0..n}}

WavExt == <<".", "w", "a", "v">>
FlacExt == <<".", "f", "l", "a", "c">>

MaxParseTokens == 4

ParseTokens ==
    { <<"_">>, <<" ">>, <<"a">>,
      <<"b", "p", "m">>, <<"B", "P", "M">>,
      <<"8", "9">>, <<"9", "0">>, <<"1", "8", "0">>, <<"1", "8", "1">>, <<"0">> }

NoOutcome == [kind |-> "pending"]

----------------------------------------------------------------------------
(* Specification of one call of parse_bpm_from_filename *)

InitParse ==
    /\ pc = "call"
    /\ args \in {[fn |-> "parse_bpm_from_filename", file_path |-> n \o WavExt] :
                    n \in NamesOf(ParseTokens, MaxParseTokens) \ {<<>>}}
    /\ outcome = NoOutcome
    /\ RunIdle

CallParse ==
    /\ pc = "call"
    /\ args.fn = "parse_bpm_from_filename"
    /\ outcome' = [kind |-> "return",
                   value |-> parse_bpm_from_filename(PathStem(args.file_path))]
    /\ pc' = "returned"
    /\ UNCHANGED <<args, runvars>>

NextParse == CallParse

SpecParse == InitParse /\ [][NextParse]_vars

----------------------------------------------------------------------------
(* Claims about parse_bpm_from_filename *)

ParsedStem == PathStem(args.file_path)

\* the numerals in [90,180] that a pattern matches anywhere in the name
InBandWithBpm(s) ==
    {WithBpmN(s, i, n).num : <<i, n>> \in
        {q \in (1..Len(s)) \X {2, 3} :
            WithBpmN(s, q[1], q[2]).ok /\ WithBpmN(s, q[1], q[2]).num \in 90..180}}

InBandLeading(s) ==
    {LeadingN(s, n).num : n \in
        {k \in {2, 3} : LeadingN(s, k).ok /\ LeadingN(s, k).num \in 90..180}}

InBandTrailing(s) ==
    {TrailingN(s, i, n).num : <<i, n>> \in
        {q \in (1..Len(s)) \X {2, 3} :
            TrailingN(s, q[1], q[2]).ok /\ TrailingN(s, q[1], q[2]).num \in 90..180}}

\* C5: a name that matches one of the three patterns with a numeral in
\* [90,180] parses to that numeral, the highest-priority pattern's when
\* several match; a name with no in-band match parses to None.
C5_InBandMatchIsReturned ==
    pc = "returned" =>
        LET s == ParsedStem
            r == outcome.value
        IN  IF InBandWithBpm(s) # {}
            THEN r \in {Some(Bpm(n)) : n \in InBandWithBpm(s)}
            ELSE IF InBandLeading(s) # {}
            THEN r \in {Some(Bpm(n)) : n \in InBandLeading(s)}
            ELSE IF InBandTrailing(s) # {}
            THEN r \in {Some(Bpm(n)) : n \in InBandTrailing(s)}
            ELSE r = None

----------------------------------------------------------------------------
(* Specification of one call of get_source_bpm *)

MaxResolveTokens == 2

ResolveTokens ==
    { <<"_">>, <<"a">>, <<"b", "p", "m">>, <<"1", "7", "0">>, <<"8", "9">> }

\* --bpm is any float: zero and negative overrides are accepted
ManualChoices == {None, Some(Bpm(140)), Some(Bpm(170)), Some(0), Some(-Bpm(5))}

\* the estimator raises, or returns a tempo: the filename's, its half,
\* an unrelated one, a fractional one
AcousticChoices ==
    {[raises |-> TRUE, cause |-> "decode error"]}
    \cup {[raises |-> FALSE, value |-> v] :
            v \in {Bpm(170), Bpm(85), Bpm(120), Bpm(173) + 1}}

InitResolve ==
    /\ pc = "call"
    /\ args \in [fn : {"get_source_bpm"},
                 file_path : {n \o WavExt :
                    n \in NamesOf(ResolveTokens, MaxResolveTokens) \ {<<>>}},
                 manual_bpm : ManualChoices,
                 warn : BOOLEAN,
                 warn_callback : BOOLEAN,
                 acoustic : AcousticChoices]
    /\ outcome = NoOutcome
    /\ RunIdle

CallResolve ==
    /\ pc = "call"
    /\ args.fn = "get_source_bpm"
    /\ outcome' = get_source_bpm(args.file_path, args.manual_bpm, args.warn,
                                 args.warn_callback, args.acoustic)
    /\ pc' = "returned"
    /\ UNCHANGED <<args, runvars>>

NextResolve == CallResolve

SpecResolve == InitResolve /\ [][NextResolve]_vars

----------------------------------------------------------------------------
(* Claims about get_source_bpm *)

FilenameBpm == parse_bpm_from_filename(PathStem(args.file_path))

\* C1: with a manual override the call returns exactly that value, whatever
\* the file name, the warn flag and the estimator would say.
C1_ManualOverrideWins ==
    pc = "returned" /\ args.manual_bpm # None =>
        outcome.kind = "return" /\ outcome.value = args.manual_bpm[1]

\* C1 witness: an override is returned although the name carries another
\* tempo, warn is on and the estimator would raise
C1_Witness ==
    /\ pc = "returned"
    /\ args.manual_bpm = Some(Bpm(140))
    /\ FilenameBpm = Some(Bpm(170))
    /\ args.warn
    /\ args.acoustic.raises
    /\ outcome.kind = "return"
    /\ outcome.value = Bpm(140)

\* C2: without an override, a tempo parsed from the name is what the call
\* returns, whether the estimator agrees, disagrees or raises.
C2_FilenameValueReturned ==
    pc = "returned" /\ args.manual_bpm = None /\ FilenameBpm # None =>
        outcome.kind = "return" /\ outcome.value = FilenameBpm[1]

\* C2 witness: a mismatch warning was emitted and the filename value is
\* still the result
C2_Witness ==
    /\ pc = "returned"
    /\ args.manual_bpm = None
    /\ FilenameBpm = Some(Bpm(170))
    /\ ~args.acoustic.raises
    /\ args.acoustic.value = Bpm(120)
    /\ Len(outcome.warnings) = 1
    /\ outcome.value = Bpm(170)

\* C3: no override, nothing in the name and a raising estimator end in
\* BPMDetectionError naming the file and the cause, never in a value.
C3_DetectionFailureRaises ==
    pc = "returned" /\ args.manual_bpm = None /\ FilenameBpm = None
                   /\ args.acoustic.raises =>
        /\ outcome.kind = "raise"
        /\ outcome.error = "BPMDetectionError"
        /\ outcome.message.file = args.file_path
        /\ outcome.message.cause = Some(args.acoustic.cause)

C3_Witness ==
    /\ pc = "returned"
    /\ args.manual_bpm = None
    /\ FilenameBpm = None
    /\ args.acoustic.raises
    /\ outcome.kind = "raise"

\* the conditions under which the resolver warns
C4_WarnCase ==
    /\ args.manual_bpm = None
    /\ args.warn
    /\ FilenameBpm # None
    /\ ~args.acoustic.raises
    /\ args.warn_callback
    /\ ~bpms_match(FilenameBpm[1], args.acoustic.value, Bpm(DefaultTolerance))

\* C4: the sink is called once exactly in the warn case and never otherwise.
C4_SinkCalledOnceIffMismatch ==
    pc = "returned" =>
        Len(outcome.warnings) = IF C4_WarnCase THEN 1 ELSE 0

\* C4 witness: one warning, carrying the two tempos that disagree
C4_Witness ==
    /\ pc = "returned"
    /\ C4_WarnCase
    /\ outcome.warnings = <<[filename_bpm |-> Bpm(170), detected_bpm |-> Bpm(120)]>>

\* C20: one call runs the acoustic estimator exactly once when there is no
\* manual override and the name gave nothing or warn is set, and not at all
\* otherwise; with a manual override it is never run and nothing is warned,
\* even with warn on and a tempo in the name.
C20_EstimatorRunsOnceWhenNeeded ==
    pc = "returned" =>
        /\ outcome.detect_calls =
              IF args.manual_bpm = None /\ (FilenameBpm = None \/ args.warn)
              THEN 1 ELSE 0
        /\ args.manual_bpm # None =>
              outcome.detect_calls = 0 /\ outcome.warnings = <<>>

\* C20 witness: an override with warn on, a sink, a tempo in the name and an
\* estimator that would disagree: no estimator run, no warning
C20_Witness ==
    /\ pc = "returned"
    /\ args.manual_bpm = Some(Bpm(140))
    /\ args.warn
    /\ args.warn_callback
    /\ FilenameBpm = Some(Bpm(170))
    /\ ~args.acoustic.raises
    /\ args.acoustic.value = Bpm(120)
    /\ outcome.detect_calls = 0
    /\ outcome.warnings = <<>>

----------------------------------------------------------------------------
(* Specification of one call of bpms_match *)

\* tempos around the half, double and direct cases, some fractional
MatchBpms ==
    {Bpm(60), Bpm(85), Bpm(85) + 3, Bpm(90), Bpm(117), Bpm(120), Bpm(123) + 1,
     Bpm(170), Bpm(173), Bpm(173) + 1}

\* the default, an exact comparison and a tolerance below zero
MatchTolerances == {Bpm(DefaultTolerance), 0, -Bpm(1)}

InitMatch ==
    /\ pc = "call"
    /\ args \in [fn : {"bpms_match"},
                 bpm1 : MatchBpms,
                 bpm2 : MatchBpms,
                 tolerance : MatchTolerances]
    /\ outcome = NoOutcome
    /\ RunIdle

CallMatch ==
    /\ pc = "call"
    /\ args.fn = "bpms_match"
    /\ outcome' = [kind |-> "return",
                   value |-> bpms_match(args.bpm1, args.bpm2, args.tolerance)]
    /\ pc' = "returned"
    /\ UNCHANGED <<args, runvars>>

NextMatch == CallMatch

SpecMatch == InitMatch /\ [][NextMatch]_vars

----------------------------------------------------------------------------
(* Claims about bpms_match *)

\* d lies within tol of zero
C18_Within(d, tol) == -tol <= d /\ d <= tol

\* C18: bpms_match(a, b, tol) is true exactly when a is within tol of b, of
\* 2b, or 2a is within tol of b; so with a tolerance that is not negative
\* (3.0 by default) every tempo matches itself, 170 and 85 match in either
\* order, and 120 and 90 do not match.
C18_MatchIsDirectHalfOrDouble ==
    pc = "returned" =>
        LET a == args.bpm1
            b == args.bpm2
            tol == args.tolerance
        IN  /\ outcome.value <=> \/ C18_Within(a - b, tol)
                                 \/ C18_Within(a - 2 * b, tol)
                                 \/ C18_Within(2 * a - b, tol)
            /\ a = b /\ tol >= 0 => outcome.value
            /\ tol = Bpm(DefaultTolerance) =>
                  /\ (a = Bpm(170) /\ b = Bpm(85)) => outcome.value
                  /\ (a = Bpm(85) /\ b = Bpm(170)) => outcome.value
                  /\ (a = Bpm(120) /\ b = Bpm(90)) => ~outcome.value

\* C18 witness: half time under the default tolerance
C18_Witness ==
    /\ pc = "returned"
    /\ args.bpm1 = Bpm(170)
    /\ args.bpm2 = Bpm(85)
    /\ args.tolerance = Bpm(DefaultTolerance)
    /\ outcome.value = TRUE

----------------------------------------------------------------------------
(* Specification of one call of detect_bpm_with_librosa *)

\* the longest array of the first run, short of the curated long ones
MaxRunLen == 2

\* tempos below, inside and above the valid range: 30 and 400 have no
\* variant in range, 60 and 250 only variants, 150 and 170 are equally
\* far from the centre
DetectBpms ==
    {Bpm(30), Bpm(60), Bpm(100), Bpm(150), Bpm(170), Bpm(250), Bpm(400)}

RECURSIVE SeqsUpTo(_, _)
SeqsUpTo(S, n) ==
    IF n = 0 THEN {<<>>}
    ELSE LET shorter == SeqsUpTo(S, n - 1)
         IN  shorter \cup {Append(q, x) : q \in shorter, x \in S}

Array(q) == [raises |-> FALSE, tempo |-> q]

\* the run without a prior: any array of up to MaxRunLen tempos, arrays
\* with a fifth value after four equal ones, or an error of the estimator
FirstRuns ==
    {Array(q) : q \in SeqsUpTo(DetectBpms, MaxRunLen)}
    \cup {Array(<<x, x, x, x, y>>) : x, y \in DetectBpms}
    \cup {[raises |-> TRUE]}

\* the run with start_bpm=140
SecondRuns ==
    {Array(<<Bpm(100)>>), Array(<<Bpm(30), Bpm(250)>>), Array(<<Bpm(400)>>),
     [raises |-> TRUE]}

\* the run with start_bpm=170
ThirdRuns ==
    {Array(<<Bpm(170)>>), Array(<<Bpm(30)>>), Array(<<>>),
     Array(<<Bpm(400), Bpm(400), Bpm(30), Bpm(400), Bpm(170), Bpm(60)>>)}

InitDetect ==
    /\ pc = "call"
    /\ \E r1 \in FirstRuns, r2 \in SecondRuns, r3 \in ThirdRuns :
          /\ Len(<<r1, r2, r3>>) = Len(priors)
          /\ args = [fn |-> "detect_bpm_with_librosa", runs |-> <<r1, r2, r3>>]
    /\ outcome = NoOutcome
    /\ RunIdle

CallDetect ==
    /\ pc = "call"
    /\ args.fn = "detect_bpm_with_librosa"
    /\ \E r \in {detect_bpm_with_librosa(args.runs)} :
          outcome' = IF r.raises
                     THEN [kind |-> "raise", error |-> r.cause]
                     ELSE [kind |-> "return", value |-> r.value]
    /\ pc' = "returned"
    /\ UNCHANGED <<args, runvars>>

NextDetect == CallDetect

SpecDetect == InitDetect /\ [][NextDetect]_vars

----------------------------------------------------------------------------
(* Claims about detect_bpm_with_librosa *)

\* the runs of the call all gave a non-empty array
C21_Estimated ==
    /\ args.fn = "detect_bpm_with_librosa"
    /\ \A i \in DOMAIN args.runs :
          ~args.runs[i].raises /\ args.runs[i].tempo # <<>>

\* R: the first four values of each run
C21_R ==
    UNION {{args.runs[i].tempo[k] :
              k \in {j \in DOMAIN args.runs[i].tempo : j <= 4}} :
           i \in DOMAIN args.runs}

C21_InBand(x) == Bpm(80) <= x /\ x <= Bpm(200)

\* E: every raw candidate with its four variants, those in [80, 200]
C21_E ==
    {x \in UNION {{c, 2 * c, (3 * c) \div 2, (4 * c) \div 3, (2 * c) \div 3} :
                    c \in C21_R} : C21_InBand(x)}

C21_RawInBand == {c \in C21_R : C21_InBand(c)}

\* v is an element of S that no element of S beats in distance to 160
C21_ClosestIn(v, S) ==
    /\ v \in S
    /\ \A x \in S : Abs(v - Bpm(160)) <= Abs(x - Bpm(160))

\* the candidate the first run gave first
C21_FirstRaw == args.runs[1].tempo[1]

\* the smallest raw candidate
C21_SmallestRaw == CHOOSE c \in C21_R : \A x \in C21_R : c <= x

\* the selection, with fallback the value returned when E is empty
C21_Selection(fallback) ==
    outcome.kind = "return" /\ C21_Estimated =>
        /\ C21_RawInBand # {} => C21_ClosestIn(outcome.value, C21_RawInBand)
        /\ C21_RawInBand = {} /\ C21_E # {} =>
              C21_ClosestIn(outcome.value, C21_E)
        /\ C21_E = {} => outcome.value = fallback
        /\ outcome.value \in C21_R \cup C21_E
        /\ C21_RawInBand # {} => outcome.value \in C21_RawInBand

\* C21 as stated: with a raw candidate in [80, 200] the result is the raw
\* in-band candidate closest to 160, otherwise the element of E closest to
\* 160, and with E empty the very first raw candidate; the result is always
\* a member of R or E and never a harmonic variant while a raw candidate is
\* in band.
C21_SelectionFirstRaw == C21_Selection(C21_FirstRaw)

\* C21 amended: as above, but with E empty the result is the smallest raw
\* candidate, the first of the sorted deduplicated list.
C21_SelectionSmallestRaw == C21_Selection(C21_SmallestRaw)

\* C21 witness: the first run gave 400 and then 30, nothing has a variant
\* in range, and 30 is returned
C21_Witness ==
    /\ pc = "returned"
    /\ C21_Estimated
    /\ C21_FirstRaw = Bpm(400)
    /\ C21_E = {}
    /\ outcome.kind = "return"
    /\ outcome.value = Bpm(30)

----------------------------------------------------------------------------
(* Specification of one call of parse_targets *)

\* the most items a comma list under test has
MaxTargetItems == 3

\* the items of a comma list: numerals, one padded, two of one value, one
\* that is no number
TargetItems ==
    { <<"1", "2", "0">>, <<"1", "4", "0">>, <<" ", "9", "0">>,
      <<"1", "2", "0", ".", "0">>, <<"x">> }

\* ",".join(items)
RECURSIVE Join(_)
Join(items) ==
    IF Len(items) = 1 THEN items[1]
    ELSE items[1] \o <<",">> \o Join(Tail(items))

TargetLists ==
    {Join(items) : items \in UNION {[1..k -> TargetItems] : k \in 1..MaxTargetItems}}

\* --range: ascending, with an end the step does not reach, descending,
\* overlapping the lists, with three boundaries, with a boundary that is
\* no integer
TargetRanges ==
    { <<"8", "0", "-", "1", "0", "0">>,
      <<"8", "5", "-", "1", "0", "0">>,
      <<"1", "0", "0", "-", "8", "0">>,
      <<"1", "2", "0", "-", "1", "4", "0">>,
      <<"8", "0", "-", "9", "0", "-", "1", "0", "0">>,
      <<"8", "x", "-", "1", "0", "0">> }

\* --step is any int
TargetSteps == {DefaultStep, 2 * DefaultStep, -DefaultStep, 0}

InitTargets ==
    /\ pc = "call"
    /\ args \in [fn : {"parse_targets"},
                 target : {None, Some(Bpm(120))},
                 targets : {None} \cup {Some(l) : l \in TargetLists},
                 range_spec : {None} \cup {Some(r) : r \in TargetRanges},
                 step : TargetSteps]
    /\ outcome = NoOutcome
    /\ RunIdle

CallTargets ==
    /\ pc = "call"
    /\ args.fn = "parse_targets"
    /\ outcome' = parse_targets(args.target, args.targets, args.range_spec,
                                args.step)
    /\ pc' = "returned"
    /\ UNCHANGED <<args, runvars>>

NextTargets == CallTargets

SpecTargets == InitTargets /\ [][NextTargets]_vars

----------------------------------------------------------------------------
(* Claims about parse_targets *)

\* the position of the first occurrence of x in q
C11_FirstIndex(q, x) ==
    CHOOSE i \in 1..Len(q) : q[i] = x /\ \A j \in 1..(i - 1) : q[j] # x

\* start, start+step, ... up to end, end included when the step reaches it
C11_RangeValues(start, end, step) ==
    LET n == IF step > 0 /\ start <= end THEN (end - start) \div step + 1
             ELSE IF step < 0 /\ start >= end THEN (start - end) \div (-step) + 1
             ELSE 0
    IN  [k \in 1..n |-> Bpm(start + (k - 1) * step)]

\* the single value, then the listed values as written, then the range
C11_Concatenation ==
    LET single == IF args.target # None THEN <<Val(args.target)>> ELSE <<>>
        listed == IF args.targets # None
                  THEN Val(FloatsOf(Split(Val(args.targets), ","))) ELSE <<>>
        bounds == Split(Val(args.range_spec), "-")
        ranged == IF args.range_spec # None
                  THEN C11_RangeValues(Val(ParseInt(bounds[1])),
                                       Val(ParseInt(bounds[2])), args.step)
                  ELSE <<>>
    IN  single \o listed \o ranged

\* C11: what parse_targets returns is the single value, the listed values in
\* written order and the range from start by step up to and including end,
\* put together in that order, with every later duplicate removed: the
\* result has no duplicate, holds exactly the values given, and orders them
\* by first appearance.
C11_ConcatenationDeduplicated ==
    pc = "returned" /\ outcome.kind = "return" =>
        LET all == C11_Concatenation
            r == outcome.value
        IN  /\ \A i, j \in 1..Len(r) : r[i] = r[j] => i = j
            /\ {r[i] : i \in 1..Len(r)} = {all[i] : i \in 1..Len(all)}
            /\ \A i, j \in 1..Len(r) :
                  i < j => C11_FirstIndex(all, r[i]) < C11_FirstIndex(all, r[j])

\* C12: parse_targets raises ValueError when no form is given and when the
\* range does not split on "-" into exactly two boundaries; when it returns,
\* the list is not empty.
C12_RaisesOrNonEmpty ==
    pc = "returned" =>
        /\ outcome.kind \in {"return", "raise"}
        /\ outcome.kind = "raise" => outcome.error = "ValueError"
        /\ (args.target = None /\ args.targets = None /\ args.range_spec = None)
              => outcome.kind = "raise"
        /\ (args.range_spec # None /\ Len(Split(Val(args.range_spec), "-")) # 2)
              => outcome.kind = "raise"
        /\ outcome.kind = "return" => Len(outcome.value) > 0

\* C12 witness: only a range is given and it contributes nothing (the step
\* runs away from its end), which is an error and not an empty list
C12_Witness ==
    /\ pc = "returned"
    /\ args.target = None
    /\ args.targets = None
    /\ args.range_spec = Some(<<"8", "0", "-", "1", "0", "0">>)
    /\ args.step = -DefaultStep
    /\ outcome.kind = "raise"
    /\ outcome.error = "ValueError"
    /\ outcome.message = "No target BPM specified"

----------------------------------------------------------------------------
(* Specification of one call of stretch_to_bpm *)

\* source and target tempos are any floats: 0, negative, fractional
StretchBpms ==
    {-Bpm(5), 0, Bpm(60), Bpm(85), Bpm(120), Bpm(120) + 3, Bpm(140), Bpm(170)}

\* click.IntRange(0, 6)
CrispnessChoices == {0, 5, 6}

\* the directory the inputs lie in, and the default --output
InDir == << <<"i", "n">> >>
OutRoot == << <<"o", "u", "t", "p", "u", "t">> >>

InPath(name) == PathOf(InDir, name)

InitStretch ==
    /\ pc = "call"
    /\ args \in {[fn |-> "stretch_to_bpm",
                  input_path |-> InPath(<<"a">> \o WavExt),
                  output_path |->
                      generate_output_path(InPath(<<"a">> \o WavExt), OutRoot, t),
                  source_bpm |-> b,
                  target_bpm |-> t,
                  crispness |-> c] :
                    b \in StretchBpms, t \in StretchBpms, c \in CrispnessChoices}
    /\ outcome = NoOutcome
    /\ RunIdle

CallStretch ==
    /\ pc = "call"
    /\ args.fn = "stretch_to_bpm"
    /\ outcome' = stretch_to_bpm(args.input_path, args.output_path,
                                 args.source_bpm, args.target_bpm, args.crispness)
    /\ pc' = "returned"
    /\ UNCHANGED <<args, runvars>>

NextStretch == CallStretch

SpecStretch == InitStretch /\ [][NextStretch]_vars

----------------------------------------------------------------------------
(* Claims about the stretch ratio *)

----------------------------------------------------------------------------
(* Specification of generate_output_path, called on an input file and then
   again on the file that run wrote *)

MaxPathTokens == 3

PathTokens ==
    { <<"_">>, <<"a">>, <<".">>, <<"b", "p", "m">>, <<"1", "7", "0">>, <<"1", "2">> }

\* --target is any float: -0.5, 5, 120.5, 140, 170, 1000
PathTargets == {-3, Bpm(5), Bpm(120) + 3, Bpm(140), Bpm(170), Bpm(1000)}

\* base names of files: "." and ".." name directories, never a file
PathNames ==
    {n \in NamesOf(PathTokens, MaxPathTokens) :
        n \notin {<<>>, <<".">>, <<".", ".">>}}

PathExts == {WavExt, FlacExt}

InitPath ==
    /\ pc = "call"
    /\ args \in [fn : {"generate_output_path"},
                 input_path : {InPath(n \o x) : n \in PathNames, x \in PathExts},
                 output_dir : {OutRoot},
                 target_bpm : PathTargets]
    /\ outcome = NoOutcome
    /\ RunIdle

CallPath ==
    /\ pc = "call"
    /\ args.fn = "generate_output_path"
    /\ outcome' = [kind |-> "return",
                   value |-> generate_output_path(args.input_path, args.output_dir,
                                                  args.target_bpm)]
    /\ pc' = "returned"
    /\ UNCHANGED <<args, runvars>>

\* a later run takes the file the first run wrote as its input
CallPathAgain ==
    /\ pc = "returned"
    /\ args.fn = "generate_output_path"
    /\ \E t2 \in PathTargets :
         /\ args' = [fn |-> "generate_output_path",
                     input_path |-> outcome.value,
                     output_dir |-> args.output_dir,
                     target_bpm |-> t2,
                     first |-> args]
         /\ outcome' = [kind |-> "return",
                        value |-> generate_output_path(outcome.value, args.output_dir, t2)]
    /\ pc' = "returned_again"
    /\ UNCHANGED runvars

NextPath == CallPath \/ CallPathAgain

SpecPath == InitPath /\ [][NextPath]_vars

----------------------------------------------------------------------------
(* Claims about generate_output_path *)

\* the whole number k that t truncates to: the one between 0 and t with
\* less than one BPM left over
WholePart(t) ==
    CHOOSE k \in ((t \div Unit) - 1)..((t \div Unit) + 1) :
        IF t >= 0
        THEN k >= 0 /\ k * Unit <= t /\ t < (k + 1) * Unit
        ELSE k <= 0 /\ (k - 1) * Unit < t /\ t <= k * Unit

\* C9: the result is root/<stem>/<stripped>_<int(target)><ext>: the folder
\* is the input's base name as it is, the file name the stripped base name,
\* the target with its fraction dropped, and the input's extension.
C9_OutputPathLayout ==
    pc \in {"returned", "returned_again"} =>
        LET name == args.input_path.name
            out == outcome.value
            ext == PathSuffix(name)
            folder == out.parent[Len(out.parent)]
        IN  /\ Len(out.parent) = Len(args.output_dir) + 1
            /\ SubSeq(out.parent, 1, Len(args.output_dir)) = args.output_dir
            /\ folder \o ext = name
            /\ out.name = strip_bpm_from_filename(folder) \o <<"_">>
                              \o IntStr(WholePart(args.target_bpm)) \o ext
            /\ PathSuffix(out.name) = ext

\* C9 witness: amen-style name at 120.5 BPM: the folder keeps the marker,
\* the file name loses it and carries 120
C9_Witness ==
    /\ pc = "returned"
    /\ args.input_path.name = <<"a", "_", "1", "7", "0">> \o WavExt
    /\ args.target_bpm = Bpm(120) + 3
    /\ outcome.value =
          PathOf(OutRoot \o << <<"a", "_", "1", "7", "0">> >>,
                 <<"a", "_", "1", "2", "0">> \o WavExt)

\* the base name of the original input, stripped
C10_StrippedOriginal ==
    strip_bpm_from_filename(PathStem(args.first.input_path.name))

\* the file name the second run should give
C10_ExpectedName ==
    C10_StrippedOriginal \o <<"_">> \o IntStr(IntTrunc(args.target_bpm))
        \o PathSuffix(args.first.input_path.name)

\* C10 as claimed: for any base name and any (positive) targets t1, t2 the
\* second run's file is named <stripped original base>_<int(t2)><ext>.
C10_NoSuffixAccumulation ==
    pc = "returned_again" /\ args.first.target_bpm > 0 /\ args.target_bpm > 0
      => outcome.value.name = C10_ExpectedName

\* C10 as amended: the same, for a first target whose whole part has 2 or
\* 3 digits and a stripped base name that holds no number+bpm token.
C10_NoSuffixAccumulationFor2To3Digits ==
    pc = "returned_again"
        /\ 10 <= IntTrunc(args.first.target_bpm)
        /\ IntTrunc(args.first.target_bpm) <= 999
        /\ SubWithBpm(C10_StrippedOriginal, 1) = C10_StrippedOriginal
      => outcome.value.name = C10_ExpectedName

\* C10 witness: a_170.wav at 120.5 gave a_120.wav, which at 140 gives
\* a_140.wav
C10_Witness ==
    /\ pc = "returned_again"
    /\ args.first.input_path.name = <<"a", "_", "1", "7", "0">> \o WavExt
    /\ args.first.target_bpm = Bpm(120) + 3
    /\ args.input_path.name = <<"a", "_", "1", "2", "0">> \o WavExt
    /\ args.target_bpm = Bpm(140)
    /\ outcome.value.name = <<"a", "_", "1", "4", "0">> \o WavExt


\* C24: the input is never written: for every input path, output root and
\* target, generate_output_path(input, root, target) differs from the
\* input, also when the input lies inside the output root from an earlier
\* run.
C24_OutputIsNeverTheInput ==
    (args.fn = "generate_output_path" /\ outcome.kind = "return") =>
        outcome.value # args.input_path

----------------------------------------------------------------------------
(* processor.py: is_audio_file and the listing of process_directory *)

SUPPORTED_EXTENSIONS == {WavExt, FlacExt}

\* an entry of the file system: its path and whether it is a regular file
Entry(path, isfile) == [path |-> path, is_file |-> isfile]

\* a test that takes every regular file for audio
IsAnyFile(entry) == entry.is_file

\* a test that compares the extension as written
IsAudioFileCaseSensitive(entry) ==
    entry.is_file /\ PathSuffix(entry.path.name) \in {WavExt, FlacExt}

\* path.is_file() and path.suffix.lower() in SUPPORTED_EXTENSIONS
is_audio_file(entry) ==
    entry.is_file /\ LowerText(PathSuffix(entry.path.name)) \in SUPPORTED_EXTENSIONS

\* the characters of the names, in code-point order
CodePoints ==
    <<" ", "+", ",", "-", ".">> \o DigitChars \o UpperChars \o <<"_">> \o LowerChars

Ord(c) == CHOOSE i \in 1..Len(CodePoints) : CodePoints[i] = c

\* a < b on str
RECURSIVE TextLess(_, _)
TextLess(a, b) ==
    IF b = <<>> THEN FALSE
    ELSE IF a = <<>> THEN TRUE
    ELSE IF a[1] = b[1] THEN TextLess(Tail(a), Tail(b))
    ELSE Ord(a[1]) < Ord(b[1])

\* sorted(paths) of the children of one directory: by file name
RECURSIVE SortedPaths(_)
SortedPaths(paths) ==
    IF paths = {} THEN <<>>
    ELSE LET first == CHOOSE x \in paths :
                          \A y \in paths \ {x} : TextLess(x.name, y.name)
         IN  <<first>> \o SortedPaths(paths \ {first})

\* sorted([f for f in input_dir.iterdir() if is_audio_file(f)])
AudioFilesOf(children) ==
    SortedPaths({c.path : c \in {e \in children : is_audio_file(e)}})

----------------------------------------------------------------------------
(* Specification of the output paths of one directory run: the loop of
   process_directory over the audio files and, in it, the loop of
   process_file over the targets *)

MaxJobTokens == 2

\* "a", "b", "_170", "_120"
JobTokens ==
    { <<"a">>, <<"b">>, <<"_", "1", "7", "0">>, <<"_", "1", "2", "0">> }

JobExts == {WavExt, FlacExt, <<".", "W", "A", "V">>}

\* the files one directory may hold
JobFiles ==
    {Entry(InPath(n \o x), TRUE) :
        n \in NamesOf(JobTokens, MaxJobTokens) \ {<<>>}, x \in JobExts}

\* deduplicated targets: 120.5, 120, 121 and -0.5, 0.5, 140
JobTargets ==
    { <<Bpm(120) + Unit \div 2, Bpm(120), Bpm(121)>>,
      <<-(Unit \div 2), Unit \div 2, Bpm(140)>> }

\* the (asset, target) pairs in the order they are processed, each with
\* the path generate_output_path gives it
RECURSIVE JobsOf(_, _, _)
JobsOf(audio_files, targets, output_dir) ==
    IF audio_files = <<>> THEN <<>>
    ELSE [i \in 1..Len(targets) |->
             [asset |-> Head(audio_files),
              target |-> targets[i],
              output_path |-> generate_output_path(Head(audio_files),
                                                   output_dir, targets[i])]]
         \o JobsOf(Tail(audio_files), targets, output_dir)

InitJobs ==
    /\ pc = "call"
    /\ \E c \in {{x, y} : x, y \in JobFiles}, t \in JobTargets :
          args = [fn |-> "process_directory", children |-> c,
                  targets |-> t, output_dir |-> OutRoot]
    /\ outcome = NoOutcome
    /\ RunIdle

CallJobs ==
    /\ pc = "call"
    /\ args.fn = "process_directory"
    /\ outcome' = [kind |-> "return",
                   jobs |-> JobsOf(AudioFilesOf(args.children), args.targets,
                                   args.output_dir)]
    /\ pc' = "returned"
    /\ UNCHANGED <<args, runvars>>

NextJobs == CallJobs

SpecJobs == InitJobs /\ [][NextJobs]_vars

----------------------------------------------------------------------------
(* Claims about the output paths of a directory run *)

C23_Planned == args.fn = "process_directory" /\ outcome.kind = "return"

C23_Whole(t) == IF t >= 0 THEN t \div Unit ELSE -((-t) \div Unit)

\* C23: two distinct (asset, target) jobs of one directory run have the
\* same output path only if they are for the same asset and their targets
\* have the same whole part; jobs for different assets of the directory
\* never share an output path.
C23_CollisionsOnlyByTruncation ==
    C23_Planned =>
        \A i, j \in DOMAIN outcome.jobs :
            i # j /\ outcome.jobs[i].output_path = outcome.jobs[j].output_path =>
                /\ outcome.jobs[i].asset = outcome.jobs[j].asset
                /\ outcome.jobs[i].target # outcome.jobs[j].target
                /\ C23_Whole(outcome.jobs[i].target)
                     = C23_Whole(outcome.jobs[j].target)

\* C23 witness: a_170.wav and a.wav, which share the stripped base name,
\* and a.flac, which shares the stem of a.wav, each with colliding targets:
\* a collision inside each asset and none between them
C23_Witness ==
    /\ C23_Planned
    /\ \E n \in {<<"a", "_", "1", "7", "0">> \o WavExt, <<"a">> \o FlacExt} :
          {c.path.name : c \in args.children} = {<<"a">> \o WavExt, n}
    /\ Len(outcome.jobs) = 6
    /\ outcome.jobs[1].output_path = outcome.jobs[2].output_path
    /\ outcome.jobs[4].output_path = outcome.jobs[5].output_path
    /\ outcome.jobs[1].output_path.name = outcome.jobs[4].output_path.name
          \/ outcome.jobs[1].output_path.parent = outcome.jobs[4].output_path.parent

----------------------------------------------------------------------------
(* converter.py: convert_audio, in place *)

\* what the file at the path is once convert_audio has returned
convert_audio(content, sample_rate, bit_depth, mono) ==
    [content EXCEPT !.converted =
        Some([sample_rate |-> sample_rate, bit_depth |-> bit_depth, mono |-> mono])]

\* a loop that converts whatever the options say
WantsConversionAlways(sample_rate, bit_depth, mono) == TRUE

\* options.sample_rate or options.bit_depth or options.mono
WantsConversion(sample_rate, bit_depth, mono) ==
    \/ (sample_rate # None /\ Val(sample_rate) # 0)
    \/ (bit_depth # None /\ Val(bit_depth) # 0)
    \/ mono

----------------------------------------------------------------------------
(* cli.py: one run of the stretch command *)

\* the most children a directory under test has
MaxDirFiles == 3

\* what lies in the input directory: audio with and without a tempo in its
\* name, an upper-case extension, an unsupported type, and a sub-directory
\* named like an audio file
RunPool ==
    { Entry(InPath(<<"a", "_", "1", "7", "0">> \o WavExt), TRUE),
      Entry(InPath(<<"b", ".", "W", "A", "V">>), TRUE),
      Entry(InPath(<<"c", ".", "m", "p", "3">>), TRUE),
      Entry(InPath(<<"f">> \o FlacExt), FALSE) }

\* INPUT_PATH: an existing file, or a directory and its immediate children
RunInputs ==
    {[is_dir |-> FALSE, entry |-> e, children |-> {}] :
        e \in {x \in RunPool : x.is_file}}
    \cup
    {[is_dir |-> TRUE, entry |-> Entry(PathOf(<<>>, InDir[1]), FALSE),
      children |-> c] :
        c \in {x \in SUBSET RunPool : Cardinality(x) <= MaxDirFiles}}

\* --target, --targets, --range and --step as typed
TargetSpec(t, ts, r) ==
    [target |-> t, targets |-> ts, range_spec |-> r, step |-> DefaultStep]

RunTargetSpecs ==
    { TargetSpec(Some(Bpm(140)), None, None),
      TargetSpec(None, Some(<<"1", "2", "0", ".", "5", ",", "1", "2", "0">>), None),
      TargetSpec(Some(Bpm(170)), Some(<<"1", "7", "0">>),
                 Some(<<"1", "6", "0", "-", "1", "7", "0">>)),
      TargetSpec(Some(0), None, None),
      TargetSpec(Some(-Bpm(5)), None, None),
      TargetSpec(None, None, None),
      TargetSpec(None, None, Some(<<"8", "0", "-", "9", "0", "-", "1", "0", "0">>)) }

\* --bpm
RunManualChoices == {None, Some(0), Some(Bpm(170))}

\* --sample-rate (any int), --bit-depth (16 or 24), --mono
RunConversions ==
    { [sample_rate |-> None, bit_depth |-> None, mono |-> FALSE],
      [sample_rate |-> Some(44100), bit_depth |-> None, mono |-> FALSE],
      [sample_rate |-> Some(0), bit_depth |-> None, mono |-> FALSE],
      [sample_rate |-> None, bit_depth |-> Some(24), mono |-> FALSE],
      [sample_rate |-> None, bit_depth |-> None, mono |-> TRUE] }

\* what the acoustic estimator does for a file of the run
RunAcousticChoices ==
    { [raises |-> TRUE, cause |-> "decode error"],
      [raises |-> FALSE, value |-> Bpm(170)],
      [raises |-> FALSE, value |-> Bpm(120)] }

Init ==
    /\ pc = "start"
    /\ args \in {[fn |-> "stretch",
                  rubberband |-> rb,
                  input |-> inp,
                  spec |-> ts,
                  bpm |-> b,
                  output |-> OutRoot,
                  conversion |-> cv,
                  warn |-> w,
                  crispness |-> DefaultCrispness] :
                    rb \in BOOLEAN, inp \in RunInputs, ts \in RunTargetSpecs,
                    b \in RunManualChoices, cv \in RunConversions, w \in BOOLEAN}
    /\ outcome = NoOutcome
    /\ RunIdle

\* raise click.ClickException(str(e)): the message is printed, the exit is 1
Exited(error) == [kind |-> "exit", code |-> 1, error |-> error]

\* a handler around one target that goes on with the loop
AfterFailureContinue == "target"

\* process_file and process_directory catch nothing: an exception raised
\* for one target of one file leaves both loops and ends the run
AfterFailure == "exited"

\* check_rubberband_installed()
CheckRubberband ==
    /\ pc = "start"
    /\ args.fn = "stretch"
    /\ calls' = Append(calls, [op |-> "check_rubberband_installed"])
    /\ IF args.rubberband
       THEN pc' = "parse" /\ UNCHANGED outcome
       ELSE pc' = "exited" /\ outcome' = Exited("RubberbandNotFoundError")
    /\ UNCHANGED <<args, target_bpms, queue, current_bpm, todo, output_paths,
                   all_outputs, disk>>

\* target_bpms = parse_targets(target, targets, range_spec, step)
ParseTargets ==
    /\ pc = "parse"
    /\ \E r \in {parse_targets(args.spec.target, args.spec.targets,
                               args.spec.range_spec, args.spec.step)} :
           /\ calls' = Append(calls, [op |-> "parse_targets"])
           /\ IF r.kind = "raise"
              THEN /\ pc' = "exited"
                   /\ outcome' = Exited(r.error)
                   /\ UNCHANGED target_bpms
              ELSE /\ pc' = "dispatch"
                   /\ target_bpms' = r.value
                   /\ UNCHANGED outcome
    /\ UNCHANGED <<args, queue, current_bpm, todo, output_paths, all_outputs, disk>>

\* input_path.is_dir() -> process_directory up to its loop;
\* is_audio_file(input_path) -> process_file; else unsupported
Dispatch ==
    /\ pc = "dispatch"
    /\ IF args.input.is_dir
       THEN \E audio_files \in {AudioFilesOf(args.input.children)} :
               IF audio_files = <<>>
               THEN /\ pc' = "exited"
                    /\ outcome' = Exited("ValueError")
                    /\ UNCHANGED queue
               ELSE /\ pc' = "file"
                    /\ queue' = audio_files
                    /\ UNCHANGED outcome
       ELSE IF is_audio_file(args.input.entry)
            THEN /\ pc' = "file"
                 /\ queue' = <<args.input.entry.path>>
                 /\ UNCHANGED outcome
            ELSE /\ pc' = "exited"
                 /\ outcome' = Exited("Unsupported file type")
                 /\ UNCHANGED queue
    /\ calls' = Append(calls, [op |-> "is_dir", path |-> args.input.entry.path])
    /\ UNCHANGED <<args, target_bpms, current_bpm, todo, output_paths,
                   all_outputs, disk>>

\* the calls one get_source_bpm makes, in order
ResolveLog(path, r) ==
    [i \in 1..r.detect_calls |-> [op |-> "detect_bpm_with_librosa", path |-> path]]
    \o [i \in 1..Len(r.warnings) |-> [op |-> "warn", path |-> path]]
    \o <<[op |-> "get_source_bpm", path |-> path]>>

\* process_file up to its loop: source_bpm = get_source_bpm(...)
ResolveTempo ==
    /\ pc = "file"
    /\ \E acoustic \in RunAcousticChoices :
       \E r \in {get_source_bpm(Head(queue).name, args.bpm, args.warn, TRUE,
                                acoustic)} :
           /\ calls' = calls \o ResolveLog(Head(queue), r)
           /\ IF r.kind = "raise"
              THEN /\ pc' = AfterFailure
                   /\ outcome' = Exited(r.error)
                   /\ UNCHANGED <<current_bpm, todo, output_paths>>
              ELSE /\ pc' = "target"
                   /\ current_bpm' = Some(r.value)
                   /\ todo' = target_bpms
                   /\ output_paths' = <<>>
                   /\ UNCHANGED outcome
    /\ UNCHANGED <<args, target_bpms, queue, all_outputs, disk>>

\* a file that exists is left as it is
WriteFileOnce(files, path, content) ==
    IF \E f \in files : f.path = path THEN files
    ELSE files \cup {[path |-> path, content |-> content]}

\* the file at a path is replaced
WriteFile(files, path, content) ==
    {f \in files : f.path # path} \cup {[path |-> path, content |-> content]}

\* one turn of the loop of process_file up to the conversion:
\* generate_output_path, then stretch_to_bpm; the engine may fail
Stretch ==
    /\ pc = "target"
    /\ todo # <<>>
    /\ \E output_path \in {generate_output_path(Head(queue), args.output, Head(todo))} :
       \E r \in {stretch_to_bpm(Head(queue), output_path, Val(current_bpm),
                                Head(todo), args.crispness)} :
           IF r.kind = "raise"
           THEN /\ pc' = AfterFailure
                /\ outcome' = Exited(r.error)
                /\ UNCHANGED <<todo, output_paths, disk, calls>>
           ELSE \E engine_ok \in BOOLEAN :
                   /\ calls' = Append(calls, [op |-> "time_stretch",
                                              engine |-> r.engine,
                                              output |-> output_path])
                   /\ IF ~engine_ok
                      THEN /\ pc' = AfterFailure
                           /\ outcome' = Exited("engine failure")
                           /\ UNCHANGED <<todo, output_paths, disk>>
                      ELSE /\ disk' = WriteFile(disk, r.written,
                                         [engine |-> r.engine, converted |-> None])
                           /\ UNCHANGED outcome
                           /\ IF WantsConversion(args.conversion.sample_rate,
                                                 args.conversion.bit_depth,
                                                 args.conversion.mono)
                              THEN /\ pc' = "convert"
                                   /\ UNCHANGED <<todo, output_paths>>
                              ELSE /\ pc' = "target"
                                   /\ output_paths' = Append(output_paths, output_path)
                                   /\ todo' = Tail(todo)
    /\ UNCHANGED <<args, target_bpms, queue, current_bpm, all_outputs>>

\* the rest of the turn: convert_audio(output_path, output_path, ...), then
\* output_paths.append(output_path); the converter may fail
Convert ==
    /\ pc = "convert"
    /\ \E output_path \in {generate_output_path(Head(queue), args.output, Head(todo))} :
       \E old \in {f \in disk : f.path = output_path} :
       \E converter_ok \in BOOLEAN :
           /\ calls' = Append(calls, [op |-> "convert_audio", path |-> output_path])
           /\ IF ~converter_ok
              THEN /\ pc' = AfterFailure
                   /\ outcome' = Exited("converter failure")
                   /\ UNCHANGED <<todo, output_paths, disk>>
              ELSE /\ disk' = WriteFile(disk, output_path,
                                 convert_audio(old.content,
                                               args.conversion.sample_rate,
                                               args.conversion.bit_depth,
                                               args.conversion.mono))
                   /\ pc' = "target"
                   /\ output_paths' = Append(output_paths, output_path)
                   /\ todo' = Tail(todo)
                   /\ UNCHANGED outcome
    /\ UNCHANGED <<args, target_bpms, queue, current_bpm, all_outputs>>

\* return output_paths; all_outputs.extend(outputs) and the next file
EndFile ==
    /\ pc = "target"
    /\ todo = <<>>
    /\ all_outputs' = all_outputs \o output_paths
    /\ queue' = Tail(queue)
    /\ pc' = IF Tail(queue) = <<>> THEN "finish" ELSE "file"
    /\ UNCHANGED <<args, outcome, target_bpms, current_bpm, todo, output_paths,
                   disk, calls>>

\* click.echo(f"Created {len(outputs)} file(s)")
Finish ==
    /\ pc = "finish"
    /\ outcome' = [kind |-> "exit", code |-> 0, created |-> Len(all_outputs)]
    /\ pc' = "exited"
    /\ UNCHANGED <<args, runvars>>

Next ==
    \/ CheckRubberband
    \/ ParseTargets
    \/ Dispatch
    \/ ResolveTempo
    \/ Stretch
    \/ Convert
    \/ EndFile
    \/ Finish

Spec == Init /\ [][Next]_vars

----------------------------------------------------------------------------
(* Claims about a run *)

\* C8: in a run past target parsing and tempo resolution every ratio handed
\* to the stretch engine is a positive number: the resolved source BPM is
\* positive and every parsed target is positive, whatever was accepted on
\* the command line, a --bpm or a target of 0 or below included.
C8_RatiosArePositive ==
    pc \in {"target", "convert"} =>
        /\ Val(current_bpm) > 0
        /\ \A i \in 1..Len(target_bpms) : target_bpms[i] > 0

\* C13: when the ratio for a target is exactly 1 (the target equals the
\* resolved source tempo) the output is a byte-identical copy of the input
\* and the stretch engine is not invoked for that target.
C13_IdentityIsCopiedWithoutEngine ==
    /\ \A i \in 1..Len(calls) :
          calls[i].op = "time_stretch" =>
              calls[i].engine.rate # [num |-> 1, den |-> 1]
    /\ \A f \in disk : f.content.engine.rate # [num |-> 1, den |-> 1]

\* the failures of one asset: resolution, the stretch, the conversion
C14_AssetFailures ==
    {"BPMDetectionError", "ZeroDivisionError", "engine failure", "converter failure"}

C14_Failed ==
    outcome.kind = "exit" /\ outcome.code = 1 /\ outcome.error \in C14_AssetFailures

\* the calls made for an input file
C14_CallsFor(path) ==
    {i \in 1..Len(calls) :
        \/ calls[i].op \in {"get_source_bpm", "detect_bpm_with_librosa"}
           /\ calls[i].path = path
        \/ calls[i].op = "time_stretch" /\ calls[i].engine.input = path}

\* C14: a failure of the resolution, the engine or the converter at one
\* target of one asset aborts the run there: the run has exited non-zero
\* with no output list, nothing was done for a later asset or a later
\* target, what was written before is still on disk, the failing step
\* removes nothing, and no step follows the exit.
C14_FailureAbortsTheBatch ==
    /\ [](C14_Failed =>
            /\ pc = "exited"
            /\ "created" \notin DOMAIN outcome
            /\ \A k \in 2..Len(queue) : C14_CallsFor(queue[k]) = {}
            /\ Cardinality({i \in C14_CallsFor(Head(queue)) :
                               calls[i].op = "time_stretch"})
                  <= Len(output_paths) + 1
            /\ \A p \in {all_outputs[i] : i \in 1..Len(all_outputs)}
                        \cup {output_paths[i] : i \in 1..Len(output_paths)} :
                  \E f \in disk : f.path = p)
    /\ [][C14_Failed' =>
            /\ \A f \in disk : f \in disk'
            /\ all_outputs' = all_outputs
            /\ output_paths' = output_paths]_vars
    /\ [][outcome.kind # "exit"]_vars

\* C14 witness: of two assets and two targets, the engine fails at the
\* second target of the first asset; the first output is on disk
C14_Witness ==
    /\ C14_Failed
    /\ outcome.error = "engine failure"
    /\ Len(queue) = 2
    /\ Len(target_bpms) = 2
    /\ Len(todo) = 1
    /\ Len(output_paths) = 1
    /\ \E f \in disk : f.path = output_paths[1]
    /\ C14_CallsFor(queue[2]) = {}

\* a name with the extension .wav or .flac, in any case
C15_IsAudioName(name) == LowerText(PathSuffix(name)) \in {WavExt, FlacExt}

\* the configuration errors, read off the command line and the input
C15_ConfigError ==
    \/ ~args.rubberband
    \/ args.spec.target = None /\ args.spec.targets = None
       /\ args.spec.range_spec = None
    \/ args.spec.range_spec # None
       /\ Len(Split(Val(args.spec.range_spec), "-")) # 2
    \/ ~args.input.is_dir /\ ~C15_IsAudioName(args.input.entry.path.name)
    \/ args.input.is_dir
       /\ ~\E c \in args.input.children : c.is_file /\ C15_IsAudioName(c.path.name)

C15_Preliminaries == {"check_rubberband_installed", "parse_targets", "is_dir"}

C16_AudioChildren ==
    {c.path : c \in {e \in args.input.children :
                        e.is_file /\ C15_IsAudioName(e.path.name)}}

C16_IsResolution(c) == c.op = "get_source_bpm"

\* the files resolved so far, in the order of their resolution
C16_Resolved ==
    [k \in 1..Len(SelectSeq(calls, C16_IsResolution)) |->
        SelectSeq(calls, C16_IsResolution)[k].path]

\* C16: of a directory exactly the immediate children that are regular
\* files with extension .wav or .flac, in any case, are processed, in sorted
\* order; with none of them the run fails before anything is processed;
\* the outputs of a finished run are the files' output lists joined in that
\* order; other files and sub-directories are never resolved or stretched.
C16_DirectoryListing ==
    args.input.is_dir =>
        LET resolved == C16_Resolved
            n == Len(target_bpms)
        IN  /\ \A i \in 1..Len(calls) :
                  /\ calls[i].op \in {"get_source_bpm", "detect_bpm_with_librosa"}
                        => calls[i].path \in C16_AudioChildren
                  /\ calls[i].op = "time_stretch"
                        => calls[i].engine.input \in C16_AudioChildren
            /\ \A j \in 1..Len(resolved) :
                  \A e \in C16_AudioChildren :
                      TextLess(e.name, resolved[j].name)
                          <=> \E k \in 1..(j - 1) : resolved[k] = e
            /\ (C16_AudioChildren = {} /\ pc = "exited" /\ Len(calls) >= 3)
                  => outcome.code = 1 /\ outcome.error = "ValueError"
            /\ (pc = "exited" /\ outcome.code = 0) =>
                  /\ {resolved[k] : k \in 1..Len(resolved)} = C16_AudioChildren
                  /\ Len(all_outputs) = Len(resolved) * n
                  /\ \A k \in 1..Len(resolved), j \in 1..n :
                        all_outputs[(k - 1) * n + j] =
                            generate_output_path(resolved[k], args.output,
                                                 target_bpms[j])

\* C16 witness: a finished run over a directory with a lower-case and an
\* upper-case audio file and an unsupported file
C16_Witness ==
    /\ pc = "exited"
    /\ outcome.code = 0
    /\ args.input.is_dir
    /\ Cardinality(args.input.children) = 3
    /\ Cardinality(C16_AudioChildren) = 2
    /\ Len(C16_Resolved) = 2
    /\ C16_Resolved[1].name = <<"a", "_", "1", "7", "0">> \o WavExt
    /\ C16_Resolved[2].name = <<"b", ".", "W", "A", "V">>
    /\ Len(all_outputs) = 2 * Len(target_bpms)

\* the paths of the files the run has written
C17_FilesOnDisk == {f.path : f \in disk}

\* C17: on a successful run the number printed as "Created N file(s)" is
\* the number of distinct files the run created; one input file with n
\* deduplicated targets gives exactly n files, all under
\* <output>/<base name>/.
C17_CreatedCountsFilesOnDisk ==
    (pc = "exited" /\ outcome.code = 0) =>
        /\ outcome.created = Cardinality(C17_FilesOnDisk)
        /\ ~args.input.is_dir =>
              /\ Cardinality(C17_FilesOnDisk) = Len(target_bpms)
              /\ \A p \in C17_FilesOnDisk :
                    p.parent = args.output
                               \o <<PathStem(args.input.entry.path.name)>>

\* the whole part of a target, the fraction dropped
C22_Whole(t) == IF t >= 0 THEN t \div Unit ELSE -((-t) \div Unit)

\* the targets that differ from an earlier-or-later one only in the fraction
C22_Colliding(i, j) ==
    /\ i < j
    /\ target_bpms[i] # target_bpms[j]
    /\ C22_Whole(target_bpms[i]) = C22_Whole(target_bpms[j])

C22_PathOf(i) == generate_output_path(Head(queue), args.output, target_bpms[i])

\* the floats the comma list of --targets names
C22_Listed ==
    IF args.spec.targets = None THEN {}
    ELSE Elems(Val(FloatsOf(Split(Val(args.spec.targets), ","))))

\* C22: within one asset, two different targets with the same whole part
\* both survive the removal of duplicates, map to the same output path and
\* are both processed in list order; once the asset is done the file at
\* that path is the result of the later target, and the list of outputs
\* holds the path at both positions.
C22_LastCollidingTargetWins ==
    (pc = "target" /\ todo = <<>>) =>
        /\ C22_Listed \subseteq Elems(target_bpms)
        /\ Len(output_paths) = Len(target_bpms)
        /\ \A i, j \in DOMAIN target_bpms :
              C22_Colliding(i, j) =>
                 /\ C22_PathOf(i) = C22_PathOf(j)
                 /\ output_paths[i] = C22_PathOf(i)
                 /\ output_paths[j] = C22_PathOf(j)
                 /\ (\A k \in DOMAIN target_bpms : k > j => ~C22_Colliding(j, k)) =>
                       \E f \in disk :
                          /\ f.path = C22_PathOf(j)
                          /\ f.content.engine.rate =
                                calculate_stretch_ratio(Val(current_bpm),
                                                        target_bpms[j])
                          /\ f.content.engine.rate #
                                calculate_stretch_ratio(Val(current_bpm),
                                                        target_bpms[i])
                          /\ \A g \in disk : g.path = f.path => g = f

\* C22 witness: --targets 120.5,120 for a file at 170 BPM gives the path
\* twice and one file, stretched at 120/170
C22_Witness ==
    /\ pc = "target"
    /\ todo = <<>>
    /\ target_bpms = <<Bpm(120) + Unit \div 2, Bpm(120)>>
    /\ current_bpm = Some(Bpm(170))
    /\ Len(output_paths) = 2
    /\ output_paths[1] = output_paths[2]
    /\ \E f \in disk :
          /\ f.path = output_paths[2]
          /\ f.content.engine.rate = calculate_stretch_ratio(Bpm(170), Bpm(120))

\* the position in the log of the latest tempo resolution
C19_LastResolution ==
    CHOOSE i \in 1..Len(calls) :
        /\ calls[i].op = "get_source_bpm"
        /\ \A j \in (i + 1)..Len(calls) : calls[j].op # "get_source_bpm"

\* the calls made for the current file since its tempo was resolved
C19_Turns == SubSeq(calls, C19_LastResolution + 1, Len(calls))

\* sample_rate, bit_depth or mono is set; a sample rate of 0 counts as not
\* set, as in Python's "or"
C19_ConversionSet ==
    \/ args.conversion.sample_rate \notin {None, Some(0)}
    \/ args.conversion.bit_depth # None
    \/ args.conversion.mono

C19_OutputPath(i) == generate_output_path(Head(queue), args.output, target_bpms[i])

\* c is the engine's call for target i of the current file, at the rate
\* target / resolved source and the crispness of the command line
C19_IsStretchOf(c, i) ==
    /\ c.op = "time_stretch"
    /\ c.engine.input = Head(queue)
    /\ c.output = C19_OutputPath(i)
    /\ c.engine.crispness = args.crispness
    /\ c.engine.rate.num * Val(current_bpm) = c.engine.rate.den * target_bpms[i]

=============================================================================
